---- MODULE Spec2Model ----
(***************************************************************************)
(* A model of cube.py: a one-ray-per-pixel ray tracer over axis-aligned    *)
(* cubes (Plane.intersect, Cube.intersect, compute_lighting,               *)
(* ray_from_camera, render).                                               *)
(*                                                                         *)
(* Numbers.  The program computes in IEEE 754 doubles (numpy float64), and *)
(* so does the model: every +, -, *, / and sqrt is the exact result        *)
(* rounded to the nearest double, ties to even, with the signed zeros,     *)
(* the subnormals, the infinities and nan.  A double is a record           *)
(*     [k |-> "num", s |-> sign, e |-> exponent, m |-> <<m1, m2, m3, m4>>] *)
(* that stands for (-1)^s * (m1 + m2*2^14 + m3*2^28 + m4*2^42) * 2^e;      *)
(* k is "inf" for the infinities and "nan" for nan.                        *)
(***************************************************************************)
EXTENDS Integers, Sequences, FiniteSets

-----------------------------------------------------------------------------
(* Naturals of any size: sequences of limbs in base 2^14, least significant *)
(* first, without leading zero limbs (0 is <<>>)                            *)

LimbBits == 14

Base == 16384

IMin(a, b) == IF a < b THEN a ELSE b

IMax(a, b) == IF a < b THEN b ELSE a

\* the number of bits of a limb
RECURSIVE BitLen(_)
BitLen(v) == IF v = 0 THEN 0 ELSE 1 + BitLen(v \div 2)

RECURSIVE BTrim(_)
BTrim(a) ==
    IF a = <<>> THEN a
    ELSE IF a[Len(a)] = 0 THEN BTrim(SubSeq(a, 1, Len(a) - 1))
    ELSE a

BLimb(a, i) == IF i <= Len(a) THEN a[i] ELSE 0

\* the number of bits of a
BLen(a) == IF a = <<>> THEN 0 ELSE LimbBits * (Len(a) - 1) + BitLen(a[Len(a)])

RECURSIVE BCmpFrom(_, _, _)
BCmpFrom(a, b, i) ==
    IF i = 0 THEN 0
    ELSE IF a[i] < b[i] THEN -1
    ELSE IF a[i] > b[i] THEN 1
    ELSE BCmpFrom(a, b, i - 1)

\* -1, 0, 1: the sign of a - b
BCmp(a, b) ==
    IF Len(a) < Len(b) THEN -1
    ELSE IF Len(a) > Len(b) THEN 1
    ELSE BCmpFrom(a, b, Len(a))

RECURSIVE BAddFrom(_, _, _, _)
BAddFrom(a, b, i, c) ==
    IF i > Len(a) /\ i > Len(b) THEN (IF c = 0 THEN <<>> ELSE <<c>>)
    ELSE <<(BLimb(a, i) + BLimb(b, i) + c) % Base>>
             \o BAddFrom(a, b, i + 1, (BLimb(a, i) + BLimb(b, i) + c) \div Base)

BAdd(a, b) == BAddFrom(a, b, 1, 0)

RECURSIVE BSubFrom(_, _, _, _)
BSubFrom(a, b, i, c) ==
    IF i > Len(a) THEN <<>>
    ELSE <<(a[i] - BLimb(b, i) - c + Base) % Base>>
             \o BSubFrom(a, b, i + 1, IF a[i] - BLimb(b, i) - c < 0 THEN 1 ELSE 0)

\* a - b, for a >= b
BSub(a, b) == BTrim(BSubFrom(a, b, 1, 0))

RECURSIVE BMulSmallFrom(_, _, _, _)
BMulSmallFrom(a, k, i, c) ==
    IF i > Len(a) THEN (IF c = 0 THEN <<>> ELSE <<c>>)
    ELSE <<(a[i] * k + c) % Base>> \o BMulSmallFrom(a, k, i + 1, (a[i] * k + c) \div Base)

\* a * k, for a limb k
BMulSmall(a, k) == IF k = 0 THEN <<>> ELSE BMulSmallFrom(a, k, 1, 0)

\* a * Base^n
BShlLimbs(a, n) == IF a = <<>> THEN a ELSE [i \in 1..n |-> 0] \o a

RECURSIVE BMulFrom(_, _, _)
BMulFrom(a, b, i) ==
    IF i > Len(a) THEN <<>>
    ELSE BAdd(BShlLimbs(BMulSmall(b, a[i]), i - 1), BMulFrom(a, b, i + 1))

BMul(a, b) == BMulFrom(a, b, 1)

\* a * 2^n
BShl(a, n) == BShlLimbs(BMulSmall(a, 2 ^ (n % LimbBits)), n \div LimbBits)

\* a divided by 2^r, r < LimbBits
BShrBits(a, r) ==
    BTrim([i \in 1..Len(a) |->
              (a[i] \div (2 ^ r)) + (BLimb(a, i + 1) % (2 ^ r)) * (2 ^ (LimbBits - r))])

\* floor(a / 2^n)
BShr(a, n) ==
    IF n \div LimbBits >= Len(a) THEN <<>>
    ELSE BShrBits(SubSeq(a, n \div LimbBits + 1, Len(a)), n % LimbBits)

\* bit i of a (bit 0 is the lowest)
BBit(a, i) == (BLimb(a, i \div LimbBits + 1) \div (2 ^ (i % LimbBits))) % 2

\* the n lowest bits of a are all 0
BLowZero(a, n) ==
    /\ \A i \in 1..IMin(n \div LimbBits, Len(a)) : a[i] = 0
    /\ BLimb(a, n \div LimbBits + 1) % (2 ^ (n % LimbBits)) = 0

RECURSIVE BFromNat(_)
BFromNat(n) == IF n = 0 THEN <<>> ELSE <<n % Base>> \o BFromNat(n \div Base)

\* one digit of a long division: <<q, rr - q*d>> for the largest q with q*d <= rr,
\* where d has four limbs, the top one >= Base/2, and rr < d * Base; the guess from
\* the two top limbs is at most 2 too large
RECURSIVE DivFix(_, _, _, _)
DivFix(rr, d, q, p) ==
    IF BCmp(p, rr) > 0 THEN DivFix(rr, d, q - 1, BSub(p, d)) ELSE <<q, BSub(rr, p)>>

DivDigit(rr, d) ==
    LET Try(q) == DivFix(rr, d, q, BMulSmall(d, q))
    IN  Try(IMin(Base - 1, (BLimb(rr, 5) * Base + BLimb(rr, 4)) \div d[4]))

\* <<q, r>>: the quotient (its digits, not trimmed) and the remainder of the limbs
\* i, i+1, ... of n by d, for d of four limbs; long division from the top limb down
RECURSIVE DivLimbs(_, _, _)
DivLimbs(n, d, i) ==
    IF i > Len(n) THEN <<<<>>, <<>>>>
    ELSE LET Digit(qr, q) == <<<<qr[1]>> \o q, qr[2]>>
             Step(prev) ==
                 IF prev[2] = <<>> /\ n[i] = 0 THEN <<<<0>> \o prev[1], <<>>>>
                 ELSE Digit(DivDigit(BTrim(<<n[i]>> \o prev[2]), d), prev[1])
         IN  Step(DivLimbs(n, d, i + 1))

\* floor(n / d) and whether the division is exact
BDivMod(n, d) ==
    LET Out(qr) == [q |-> BTrim(qr[1]), exact |-> qr[2] = <<>>]
    IN  Out(DivLimbs(n, d, 1))

BQuot(n, d) == BDivMod(n, d).q

\* the integer square root of a small n: the k with k*k <= n < (k+1)*(k+1)
RECURSIVE ISqrtIn(_, _, _)
ISqrtIn(n, lo, hi) ==
    IF hi - lo <= 1 THEN lo
    ELSE IF (lo + hi) \div 2 <= n \div ((lo + hi) \div 2)
         THEN ISqrtIn(n, (lo + hi) \div 2, hi)
         ELSE ISqrtIn(n, lo, (lo + hi) \div 2)

\* Newton's iteration x -> (x + n/x)/2 from an x >= sqrt(n), down to floor(sqrt(n))
RECURSIVE Newton(_, _)
Newton(n, x) ==
    LET Better(y) == IF BCmp(y, x) < 0 THEN Newton(n, y) ELSE x
    IN  Better(BShr(BAdd(x, BQuot(n, x)), 1))

\* floor(sqrt(n)) for an n of eight limbs, 2^109 <= n < 2^111: the start is the
\* root of the two top limbs, rounded up
BSqrt(n) ==
    LET From(g) == IF g >= Base THEN Newton(n, <<Base - 1, Base - 1, Base - 1, Base - 1>>)
                   ELSE Newton(n, <<0, 0, 0, g>>)
    IN  From(ISqrtIn(n[8] * Base + n[7], 1, Base) + 1)

-----------------------------------------------------------------------------
(* IEEE 754 binary64.  A finite double is (-1)^s * m * 2^e with m < 2^53    *)
(* held in four limbs; e >= -1074, and m >= 2^52 unless e = -1074           *)
(* (subnormals, and the zeros +0 and -0).                                   *)

Precision == 53

EMin == -1074

EMax == 971

NaN == [k |-> "nan", s |-> 0, e |-> 0, m |-> <<0, 0, 0, 0>>]

Inf == [k |-> "inf", s |-> 0, e |-> 0, m |-> <<0, 0, 0, 0>>]

NegInf == [k |-> "inf", s |-> 1, e |-> 0, m |-> <<0, 0, 0, 0>>]

Infinity(s) == IF s = 0 THEN Inf ELSE NegInf

Zero(s) == [k |-> "num", s |-> s, e |-> EMin, m |-> <<0, 0, 0, 0>>]

IsNaN(x) == x.k = "nan"

IsInf(x) == x.k = "inf"

IsNum(x) == x.k = "num"

IsZero(x) == IsNum(x) /\ x.m = <<0, 0, 0, 0>>

\* the mantissa of a finite double, as a natural
Mant(x) == BTrim(x.m)

\* (-1)^s * m * 2^e for a mantissa that fits: infinite when it overflows
Pack(s, m, e) ==
    IF e > EMax THEN Infinity(s)
    ELSE [k |-> "num", s |-> s, e |-> e,
          m |-> <<BLimb(m, 1), BLimb(m, 2), BLimb(m, 3), BLimb(m, 4)>>]

\* the double nearest to (-1)^s * n * 2^e, ties to the even mantissa
Round(s, n, e) ==
    LET Carry(m, ee) == IF BLen(m) > Precision THEN Pack(s, BShr(m, 1), ee + 1)
                        ELSE Pack(s, m, ee)
        Up(q, d) == BBit(n, d - 1) = 1 /\ (~BLowZero(n, d - 1) \/ BBit(q, 0) = 1)
        Cut(q, d) == Carry(IF Up(q, d) THEN BAdd(q, <<1>>) ELSE q, e + d)
        Keep(sh) == Pack(s, BShl(n, sh), e - sh)
        Go(len) ==
            IF IMax(len - Precision, EMin - e) > 0
            THEN Cut(BShr(n, IMax(len - Precision, EMin - e)), IMax(len - Precision, EMin - e))
            ELSE Keep(IMin(Precision - len, e - EMin))
    IN  IF n = <<>> THEN Zero(s) ELSE Go(BLen(n))

\* the double of an integer
R(i) == IF i < 0 THEN Round(1, BFromNat(-i), 0) ELSE Round(0, BFromNat(i), 0)

\* -1, 0, 1: |x| against |y|, for finite or infinite x and y
CmpMag(x, y) ==
    IF IsInf(x) \/ IsInf(y) THEN (IF IsInf(x) /\ IsInf(y) THEN 0 ELSE IF IsInf(x) THEN 1 ELSE -1)
    ELSE IF x.e < y.e THEN -1
    ELSE IF x.e > y.e THEN 1
    ELSE BCmpFrom(x.m, y.m, 4)

\* -1, 0, 1: x against y, neither nan; -0 equals +0
Cmp(x, y) ==
    IF IsZero(x) /\ IsZero(y) THEN 0
    ELSE IF x.s # y.s THEN (IF x.s = 1 THEN -1 ELSE 1)
    ELSE IF x.s = 1 THEN -CmpMag(x, y)
    ELSE CmpMag(x, y)

RLess(x, y) == ~IsNaN(x) /\ ~IsNaN(y) /\ Cmp(x, y) < 0

RLeq(x, y) == ~IsNaN(x) /\ ~IsNaN(y) /\ Cmp(x, y) <= 0

REq(x, y) == ~IsNaN(x) /\ ~IsNaN(y) /\ Cmp(x, y) = 0

RNeg(x) == IF IsNaN(x) THEN x ELSE [x EXCEPT !.s = 1 - x.s]

RAbs(x) == IF IsNaN(x) THEN x ELSE [x EXCEPT !.s = 0]

\* x + y of two finite doubles: the exact sum, rounded
AddFinite(x, y) ==
    LET Sum(a, b, e) ==
            IF x.s = y.s THEN Round(x.s, BAdd(a, b), e)
            ELSE IF BCmp(a, b) > 0 THEN Round(x.s, BSub(a, b), e)
            ELSE IF BCmp(a, b) < 0 THEN Round(y.s, BSub(b, a), e)
            ELSE Zero(0)
        Aligned(e) == Sum(BShl(Mant(x), x.e - e), BShl(Mant(y), y.e - e), e)
    IN  IF IsZero(x) /\ IsZero(y) THEN Zero(IF x.s = 1 /\ y.s = 1 THEN 1 ELSE 0)
        ELSE IF IsZero(y) \/ x.e - y.e > Precision + 2 THEN x
        ELSE IF IsZero(x) \/ y.e - x.e > Precision + 2 THEN y
        ELSE Aligned(IMin(x.e, y.e))

RAdd(x, y) ==
    IF IsNaN(x) \/ IsNaN(y) THEN NaN
    ELSE IF IsInf(x) THEN (IF IsInf(y) /\ x.s # y.s THEN NaN ELSE x)
    ELSE IF IsInf(y) THEN y
    ELSE AddFinite(x, y)

RSub(x, y) == RAdd(x, RNeg(y))

RMul(x, y) ==
    IF IsNaN(x) \/ IsNaN(y) THEN NaN
    ELSE IF IsInf(x) \/ IsInf(y)
         THEN (IF IsZero(x) \/ IsZero(y) THEN NaN ELSE Infinity((x.s + y.s) % 2))
    ELSE Round((x.s + y.s) % 2, BMul(Mant(x), Mant(y)), x.e + y.e)

\* x / y of two finite doubles, neither zero: both mantissas scaled to 56 bits, the
\* quotient to 56 or 57 bits and one more that tells an inexact division, rounded
DivFinite(x, y) ==
    LET Quot(d, e) ==
            Round((x.s + y.s) % 2, BAdd(BShl(d.q, 1), IF d.exact THEN <<>> ELSE <<1>>), e)
        Scaled(a, b) ==
            Quot(BDivMod(BShlLimbs(BShl(Mant(x), a), 4), BShl(Mant(y), b)),
                 (x.e - a) - (y.e - b) - 4 * LimbBits - 1)
    IN  Scaled(4 * LimbBits - BLen(Mant(x)), 4 * LimbBits - BLen(Mant(y)))

RDiv(x, y) ==
    IF IsNaN(x) \/ IsNaN(y) THEN NaN
    ELSE IF IsInf(x) THEN (IF IsInf(y) THEN NaN ELSE Infinity((x.s + y.s) % 2))
    ELSE IF IsInf(y) THEN Zero((x.s + y.s) % 2)
    ELSE IF IsZero(y) THEN (IF IsZero(x) THEN NaN ELSE Infinity((x.s + y.s) % 2))
    ELSE IF IsZero(x) THEN Zero((x.s + y.s) % 2)
    ELSE DivFinite(x, y)

\* the double n / d of two integers
RQ(n, d) == RDiv(R(n), R(d))

\* sqrt of a finite x > 0: the mantissa scaled to 53 bits, then by an even power of
\* 2 to 110 or 111 bits; the root's 55 or 56 bits and one more that tells an
\* inexact root, rounded
SqrtFinite(x) ==
    LET Root(n, s, e) ==
            Round(0, BAdd(BShl(s, 1), IF BMul(s, s) = n THEN <<>> ELSE <<1>>), e)
        Of(n, e) == Root(n, BSqrt(n), e \div 2 - 1)
        Even(m, e) == IF e % 2 = 0 THEN Of(BShl(m, 58), e - 58) ELSE Of(BShl(m, 57), e - 57)
        Scaled(a) == Even(BShl(Mant(x), a), x.e - a)
    IN  Scaled(Precision - BLen(Mant(x)))

RSqrt(x) ==
    IF IsNaN(x) \/ IsZero(x) THEN x
    ELSE IF x.s = 1 THEN NaN
    ELSE IF IsInf(x) THEN x
    ELSE SqrtFinite(x)

-----------------------------------------------------------------------------
(* Vectors: numpy arrays of three doubles *)

Vec(x, y, z) == <<R(x), R(y), R(z)>>

VAdd(u, v) == [i \in 1..3 |-> RAdd(u[i], v[i])]

VSub(u, v) == [i \in 1..3 |-> RSub(u[i], v[i])]

VScale(u, s) == [i \in 1..3 |-> RMul(u[i], s)]

VDiv(u, s) == [i \in 1..3 |-> RDiv(u[i], s)]

\* np.dot: the products are added in order to an accumulator that starts at 0.0
Dot(u, v) ==
    RAdd(RAdd(RAdd(Zero(0), RMul(u[1], v[1])), RMul(u[2], v[2])), RMul(u[3], v[3]))

\* np.linalg.norm: sqrt(dot(u, u))
Norm(u) == RSqrt(Dot(u, u))

VEq(u, v) == \A i \in 1..3 : REq(u[i], v[i])

-----------------------------------------------------------------------------
(* Python's None, for a distance and for a normal or a point *)

None == [k |-> "none", s |-> 0, e |-> 0, m |-> <<0, 0, 0, 0>>]

NoneVec == <<None, None, None>>

IsNone(x) == x.k = "none"

-----------------------------------------------------------------------------
(* Plane *)

\* the parallel-ray threshold 1e-6
Eps == RQ(1, 1000000)

\* Plane.__init__
Plane(point, normal, color) == [point |-> point, normal |-> normal, color |-> color]

NoHit == [t |-> None, normal |-> NoneVec, p |-> NoneVec]

\* Plane.intersect with `denom == 0` for the parallel test: no threshold
PlaneIntersectNoEps(plane, ray_origin, ray_direction) ==
    LET At(t) ==
            IF RLess(t, R(0)) THEN NoHit
            ELSE [t |-> t, normal |-> plane.normal,
                  p |-> VAdd(ray_origin, VScale(ray_direction, t))]
        With(denom) ==
            IF REq(denom, R(0)) THEN NoHit
            ELSE At(RDiv(Dot(VSub(plane.point, ray_origin), plane.normal), denom))
    IN  With(Dot(ray_direction, plane.normal))

\* Plane.intersect: (t, normal, hit point), or (None, None, None)
PlaneIntersect(plane, ray_origin, ray_direction) ==
    LET At(t) ==
            IF RLess(t, R(0)) THEN NoHit
            ELSE [t |-> t, normal |-> plane.normal,
                  p |-> VAdd(ray_origin, VScale(ray_direction, t))]
        With(denom) ==
            IF RLess(RAbs(denom), Eps) THEN NoHit
            ELSE At(RDiv(Dot(VSub(plane.point, ray_origin), plane.normal), denom))
    IN  With(Dot(ray_direction, plane.normal))

-----------------------------------------------------------------------------
(* Cube *)

\* the six face normals, in the order Cube.__init__ builds the planes
FaceNormals ==
    <<Vec(1, 0, 0), Vec(-1, 0, 0), Vec(0, 1, 0), Vec(0, -1, 0), Vec(0, 0, 1), Vec(0, 0, -1)>>

\* Cube.__init__ with the planes offset by side instead of side / 2
CubeFullSide(center, side, color) ==
    [center |-> center, side |-> side, color |-> color,
     planes |-> [f \in 1..6 |->
                   Plane(VAdd(center, VScale(FaceNormals[f], side)), FaceNormals[f], color)]]

\* Cube.__init__: half = side / 2.0, one plane per face at center + half * normal
Cube(center, side, color) ==
    [center |-> center, side |-> side, color |-> color,
     planes |-> [f \in 1..6 |->
                   Plane(VAdd(center, VScale(FaceNormals[f], RDiv(side, R(2)))),
                         FaceNormals[f], color)]]

\* the face-bound test against one corner of the face, center + (n + (1,1,1)) * side / 2,
\* in place of the face centre
FaceBoundCorner(cube, n, p) ==
    \A i \in 1..3 :
        RLeq(RAbs(RSub(p[i], RAdd(cube.center[i],
                                  RDiv(RMul(RAdd(n[i], R(1)), cube.side), R(2))))),
             RDiv(cube.side, R(2)))

\* the face-bound test of Cube.intersect:
\* all(abs(p - (self.center + n * self.side / 2)) <= self.side / 2)
FaceBound(cube, n, p) ==
    \A i \in 1..3 :
        RLeq(RAbs(RSub(p[i], RAdd(cube.center[i], RDiv(RMul(n[i], cube.side), R(2))))),
             RDiv(cube.side, R(2)))

\* the loop body with `dist <= min_dist`: the last of several equal hits wins
CubeStepLast(cube, h, acc) ==
    IF ~IsNone(h.t) /\ FaceBound(cube, h.normal, h.p) /\ RLeq(h.t, acc.min_dist)
    THEN [min_dist |-> h.t, normal |-> h.normal]
    ELSE acc

\* one iteration of the loop over self.planes: (min_dist, normal) after the plane
\* whose intersect returned h
CubeStep(cube, h, acc) ==
    IF ~IsNone(h.t) /\ FaceBound(cube, h.normal, h.p) /\ RLess(h.t, acc.min_dist)
    THEN [min_dist |-> h.t, normal |-> h.normal]
    ELSE acc

RECURSIVE CubeLoop(_, _, _, _)
CubeLoop(cube, ray_origin, ray_direction, f) ==
    IF f = 0 THEN [min_dist |-> Inf, normal |-> NoneVec]
    ELSE CubeStep(cube, PlaneIntersect(cube.planes[f], ray_origin, ray_direction),
                  CubeLoop(cube, ray_origin, ray_direction, f - 1))

\* the return of Cube.intersect: min_dist if min_dist != float('inf') else None, normal
CubeReturn(r) ==
    [dist |-> IF REq(r.min_dist, Inf) THEN None ELSE r.min_dist, normal |-> r.normal]

\* Cube.intersect: (distance, normal), the distance None when no face was hit
CubeIntersect(cube, ray_origin, ray_direction) ==
    CubeReturn(CubeLoop(cube, ray_origin, ray_direction, 6))

-----------------------------------------------------------------------------
(* Light, shading and the camera *)

\* Light.__init__
Light(position, intensity) == [position |-> position, intensity |-> intensity]

\* Python's max(a, 0): a unless 0 > a (so nan stays nan)
Max0(a) == IF RLess(a, R(0)) THEN R(0) ELSE a

\* compute_lighting; light_dir is a new array, so dividing it in place leaves
\* scene_light.position as it was
ComputeLighting(point, normal, scene_light) ==
    LET Lit(light_dir) ==
            RMul(Max0(Dot(VDiv(light_dir, Norm(light_dir)), normal)), scene_light.intensity)
    IN  Lit(VSub(scene_light.position, point))

\* tan(fov * 0.5 * pi / 180) in doubles for fov = 1, 2, ..., 179 degrees, each as
\* <<e, m1, m2, m3, m4>>: tan is not exactly 1 at 90 degrees but 1 - 2^-53
TanTable ==
    <<
       <<-59, 1647, 14400, 13893, 1143>>, <<-58, 9250, 4162, 15321, 1143>>, <<-58, 10194, 3093, 1975, 1716>>,
       <<-57, 8130, 5976, 4649, 1144>>, <<-57, 9581, 3900, 11170, 1430>>, <<-57, 15985, 4252, 4884, 1717>>,
       <<-57, 10378, 10821, 2895, 2004>>, <<-56, 12804, 10660, 11155, 1145>>, <<-56, 15450, 9165, 7352, 1289>>,
       <<-56, 5601, 4725, 6787, 1433>>, <<-56, 11626, 9186, 9826, 1577>>, <<-56, 7575, 5260, 455, 1722>>,
       <<-56, 9239, 15877, 11812, 1866>>, <<-56, 7474, 9760, 11505, 2011>>, <<-55, 3064, 1830, 8147, 1078>>,
       <<-55, 4069, 8601, 5087, 1151>>, <<-55, 4348, 13900, 4957, 1224>>, <<-55, 3985, 11975, 7951, 1297>>,
       <<-55, 12925, 12918, 14264, 1370>>, <<-55, 3004, 12055, 7710, 1444>>, <<-55, 3951, 8526, 4873, 1518>>,
       <<-55, 3766, 7543, 5955, 1592>>, <<-55, 3991, 6308, 11161, 1666>>, <<-55, 9035, 12760, 4314, 1741>>,
       <<-55, 9503, 15231, 2009, 1816>>, <<-55, 5524, 1316, 4460, 1891>>, <<-55, 3949, 9581, 11881, 1966>>,
       <<-55, 8020, 1120, 8110, 2042>>, <<-54, 10517, 4858, 4876, 1059>>, <<-54, 3414, 14971, 8517, 1097>>,
       <<-54, 7701, 1821, 15095, 1135>>, <<-54, 15138, 1564, 8341, 1174>>, <<-54, 15972, 2430, 4759, 1213>>,
       <<-54, 11099, 11839, 4470, 1252>>, <<-54, 2171, 8884, 7599, 1291>>, <<-54, 8622, 11557, 14271, 1330>>,
       <<-54, 15651, 12967, 8231, 1370>>, <<-54, 5650, 15920, 5994, 1410>>, <<-54, 15422, 2028, 7695, 1450>>,
       <<-54, 724, 15588, 13468, 1490>>, <<-54, 13854, 1756, 7072, 1531>>, <<-54, 7430, 5270, 5031, 1572>>,
       <<-54, 6613, 8785, 7492, 1613>>, <<-54, 3392, 688, 14605, 1654>>, <<-54, 12082, 10227, 10137, 1696>>,
       <<-54, 8862, 11672, 10630, 1738>>, <<-54, 7284, 8794, 16244, 1780>>, <<-54, 2572, 4772, 10759, 1823>>,
       <<-54, 14639, 4976, 10727, 1866>>, <<-54, 6833, 3494, 16321, 1909>>, <<-54, 4567, 2542, 11334, 1953>>,
       <<-54, 7412, 15637, 12331, 1997>>, <<-54, 67, 5370, 3117, 2042>>, <<-53, 7516, 775, 8325, 1043>>,
       <<-53, 5749, 11455, 1987, 1066>>, <<-53, 16092, 15866, 15415, 1088>>, <<-53, 14046, 1679, 15946, 1111>>,
       <<-53, 14783, 6126, 3685, 1135>>, <<-53, 4790, 3492, 11512, 1158>>, <<-53, 13084, 5696, 6772, 1182>>,
       <<-53, 15570, 15538, 5966, 1206>>, <<-53, 12189, 12822, 9216, 1230>>, <<-53, 1248, 6147, 262, 1255>>,
       <<-53, 9493, 2908, 12000, 1279>>, <<-53, 1046, 12214, 11794, 1304>>, <<-53, 5647, 15175, 16166, 1329>>,
       <<-53, 13975, 899, 8874, 1355>>, <<-53, 1574, 2651, 6446, 1381>>, <<-53, 12364, 3117, 9034, 1407>>,
       <<-53, 16250, 3714, 410, 1434>>, <<-53, 6334, 12170, 13503, 1460>>, <<-53, 13635, 13943, 15713, 1487>>,
       <<-53, 11889, 9415, 7213, 1515>>, <<-53, 14096, 2170, 4566, 1543>>, <<-53, 9846, 3930, 7957, 1571>>,
       <<-53, 3217, 6999, 1195, 1600>>, <<-53, 7691, 6163, 864, 1629>>, <<-53, 10294, 4530, 7171, 1658>>,
       <<-53, 9662, 3326, 3947, 1688>>, <<-53, 16157, 8446, 7799, 1718>>, <<-53, 16204, 4634, 2576, 1749>>,
       <<-53, 3343, 12002, 4902, 1780>>, <<-53, 3752, 11931, 15029, 1811>>, <<-53, 95, 4537, 450, 1844>>,
       <<-53, 14666, 1114, 10588, 1876>>, <<-53, 7349, 766, 12958, 1909>>, <<-53, 3472, 397, 7855, 1943>>,
       <<-53, 9314, 5364, 11970, 1977>>, <<-53, 11081, 8057, 9240, 2012>>, <<-53, 16383, 16383, 16383, 2047>>,
       <<-52, 15045, 574, 491, 1042>>, <<-52, 13357, 12271, 6275, 1060>>, <<-52, 6831, 12752, 1160, 1079>>,
       <<-52, 13468, 7859, 1729, 1098>>, <<-52, 1889, 7292, 8190, 1117>>, <<-52, 994, 878, 4378, 1137>>,
       <<-52, 11001, 1041, 6905, 1157>>, <<-52, 6785, 4055, 16011, 1177>>, <<-52, 5003, 1215, 15564, 1198>>,
       <<-52, 4734, 7237, 5827, 1220>>, <<-52, 1677, 7645, 3462, 1242>>, <<-52, 7405, 5455, 8760, 1264>>,
       <<-52, 13417, 3410, 5643, 1287>>, <<-52, 11806, 3779, 10817, 1310>>, <<-52, 14822, 9450, 8237, 1334>>,
       <<-52, 14616, 10059, 14645, 1358>>, <<-52, 11493, 2435, 14034, 1383>>, <<-52, 11128, 12750, 6800, 1409>>,
       <<-52, 5991, 5853, 9749, 1435>>, <<-52, 8487, 9651, 6939, 1462>>, <<-52, 1706, 12386, 15224, 1489>>,
       <<-52, 10675, 9861, 2333, 1518>>, <<-52, 3226, 6286, 1560, 1547>>, <<-52, 12301, 1781, 13463, 1576>>,
       <<-52, 3939, 16046, 5865, 1607>>, <<-52, 262, 1081, 12166, 1638>>, <<-52, 16331, 3848, 264, 1671>>,
       <<-52, 5800, 5894, 3640, 1704>>, <<-52, 6184, 13896, 6668, 1738>>, <<-52, 3240, 8545, 10158, 1773>>,
       <<-52, 14585, 14568, 14972, 1809>>, <<-52, 499, 14164, 5650, 1847>>, <<-52, 4478, 16015, 15947, 1885>>,
       <<-52, 9618, 2392, 14154, 1925>>, <<-52, 10930, 1250, 1404, 1967>>, <<-52, 9200, 6139, 11684, 2009>>,
       <<-51, 11153, 11996, 14960, 1026>>, <<-51, 4583, 3406, 12379, 1049>>, <<-51, 1621, 6679, 7050, 1073>>,
       <<-51, 4837, 14900, 16179, 1097>>, <<-51, 3504, 4575, 7888, 1123>>, <<-51, 370, 817, 15906, 1149>>,
       <<-51, 8681, 9674, 8509, 1177>>, <<-51, 5763, 45, 3218, 1206>>, <<-51, 7654, 3326, 1267, 1236>>,
       <<-51, 13783, 6213, 4005, 1267>>, <<-51, 16342, 765, 12906, 1299>>, <<-51, 14209, 15872, 13198, 1333>>,
       <<-51, 326, 4275, 6655, 1369>>, <<-51, 13015, 993, 11607, 1406>>, <<-51, 1138, 3661, 13818, 1445>>,
       <<-51, 12511, 9865, 15662, 1486>>, <<-51, 14526, 9632, 3386, 1530>>, <<-51, 6062, 12147, 12680, 1575>>,
       <<-51, 563, 8714, 14033, 1623>>, <<-51, 10013, 7245, 11084, 1674>>, <<-51, 10205, 37, 7914, 1728>>,
       <<-51, 10345, 11516, 9112, 1785>>, <<-51, 618, 4074, 3479, 1846>>, <<-51, 9814, 4272, 13271, 1910>>,
       <<-51, 5909, 6579, 12404, 1979>>, <<-50, 5057, 8399, 12450, 1026>>, <<-50, 3187, 7977, 5189, 1066>>,
       <<-50, 6806, 9591, 14054, 1108>>, <<-50, 4621, 11792, 12146, 1154>>, <<-50, 12936, 14527, 6312, 1204>>,
       <<-50, 7932, 13042, 4590, 1258>>, <<-50, 9288, 7985, 95, 1317>>, <<-50, 5119, 4363, 4135, 1381>>,
       <<-50, 8499, 346, 13896, 1451>>, <<-50, 7789, 6173, 13036, 1529>>, <<-50, 9769, 3817, 5249, 1616>>,
       <<-50, 16286, 6143, 15335, 1712>>, <<-50, 6873, 11273, 8759, 1821>>, <<-50, 12972, 14057, 8405, 1944>>,
       <<-49, 9214, 6555, 7804, 1042>>, <<-49, 7521, 14323, 7234, 1123>>, <<-49, 14536, 7272, 13740, 1217>>,
       <<-49, 5537, 4217, 5420, 1329>>, <<-49, 7141, 767, 765, 1463>>, <<-49, 3359, 11057, 6458, 1626>>,
       <<-49, 11578, 13788, 7950, 1830>>, <<-48, 11440, 912, 6402, 1046>>, <<-48, 3160, 16113, 3157, 1221>>,
       <<-48, 850, 14151, 13778, 1465>>, <<-48, 6211, 15112, 11799, 1832>>, <<-47, 11542, 15530, 502, 1222>>,
       <<-47, 6832, 6610, 4567, 1833>>, <<-46, 2836, 1630, 6855, 1833>>
    >>

\* np.tan(fov * 0.5 * np.pi / 180), for a whole number of degrees below 180
TanHalfFov(fov) ==
    [k |-> "num", s |-> 0, e |-> TanTable[fov][1],
     m |-> <<TanTable[fov][2], TanTable[fov][3], TanTable[fov][4], TanTable[fov][5]>>]

\* ray_from_camera: (camera_position, the normalised direction through pixel (x, y))
RayFromCamera(camera_position, x, y, image_width, image_height, fov) ==
    LET Ray(v, norm) == [origin |-> camera_position, direction |-> VDiv(v, norm)]
        Through(v) == Ray(v, Norm(v))
        To(aspect_ratio, scale) ==
            Through(<<RMul(RMul(RSub(RDiv(RMul(R(2), RAdd(R(x), RQ(1, 2))),
                                          R(image_width)), R(1)),
                                aspect_ratio), scale),
                      RMul(RSub(R(1), RDiv(RMul(R(2), RAdd(R(y), RQ(1, 2))),
                                           R(image_height))), scale),
                      R(-1)>>)
    IN  To(RDiv(R(image_width), R(image_height)), TanHalfFov(fov))

\* np.clip(c, 0, 1): the larger of c and 0, then the smaller of that and 1; nan
\* stays nan
Clip01(c) ==
    IF IsNaN(c) THEN c
    ELSE IF ~RLess(R(0), c) THEN R(0)
    ELSE IF RLess(c, R(1)) THEN c
    ELSE R(1)

-----------------------------------------------------------------------------
(* The state: render's arguments and locals, and the arguments and result  *)
(* of one call of Plane.intersect or Cube.intersect                        *)

VARIABLES
    scene, scene_light, camera_position, image_width, image_height, fov,
    image, y, x, origin, direction, closest_obj, min_dist, hit_normal, obj,
    hit_count, light_intensity, entry, pc,
    fn, plane, cube, ray_origin, ray_direction, ret

renderVars ==
    <<scene, scene_light, camera_position, image_width, image_height, fov,
      image, y, x, origin, direction, closest_obj, min_dist, hit_normal, obj,
      hit_count, light_intensity, entry, pc>>

callVars == <<fn, plane, cube, ray_origin, ray_direction, ret>>

vars == <<renderVars, callVars>>

-----------------------------------------------------------------------------
(* Bounds and inputs *)

MaxObjs == 2

MaxWidth == 2

MaxHeight == 2

MaxK == 2

MaxOff == 1

MaxDepth == 3

Green == Vec(0, 1, 0)

\* a colour outside [0,1] on both sides
Loud == Vec(2, 0, -1)

\* the cube of the program's own scene
OwnCube == Cube(Vec(0, 0, -5), R(2), Green)

\* a cube in front of the camera
FrontCube == Cube(Vec(0, 0, -3), R(4), Loud)

\* a cube to the right of the camera
RightCube == Cube(Vec(2, 0, -2), R(2), Green)

\* a cube whose front face lies in the plane of FrontCube's
InnerCube == Cube(Vec(0, 0, -2), R(2), Green)

\* Cube([0.1, 0.2, -3.0], 0.6, ...): no face plane of it is at a double that is the
\* exact sum of centre and half side
TenthsCube == Cube(<<RQ(1, 10), RQ(1, 5), R(-3)>>, RQ(3, 5), Green)

UnitCube == Cube(Vec(1, 1, -4), R(1), Green)

CubeInputs == {OwnCube, FrontCube, TenthsCube, UnitCube}

\* the cubes scenes are made of, and the scenes: up to MaxObjs cubes in a row, from
\* any of them on, cyclically
SceneRow == <<FrontCube, RightCube, InnerCube>>

SceneInputs ==
    {[j \in 1..n |-> SceneRow[((i + j - 2) % Len(SceneRow)) + 1]] :
        i \in 1..Len(SceneRow), n \in 0..MaxObjs}

\* the light of the program's own scene, and a light on the front face of a cube
LightInputs ==
    { Light(Vec(-3, -4, -10), RQ(3, 2)),
      Light(Vec(0, 0, -1), RQ(3, 2)) }

CameraInputs == {Vec(0, 0, 0)}

\* ray origins on a lattice in front of, on and inside the cubes
OriginInputs == {Vec(ox, 0, -oz) : ox \in 0..MaxOff, oz \in 0..MaxDepth}

\* ray directions, not normalised: the lattice directions, and two almost parallel
\* to the y = const planes, below and at the 1e-6 threshold
DirInputs ==
    ({Vec(dx, dy, dz) : dx \in -1..1, dy \in -1..1, dz \in -1..1} \ {Vec(0, 0, 0)})
        \cup {<<R(0), RQ(1, 2000000), R(-1)>>, <<R(0), RQ(-1, 1000000), R(-1)>>}

\* the centre of face f of a cube
FaceCenter(c, f) == VAdd(c.center, VScale(FaceNormals[f], RDiv(c.side, R(2))))

\* a call cube.intersect(ray_origin, ray_direction)
Call(c, o, d) == [cube |-> c, ray_origin |-> o, ray_direction |-> d]

\* rays from k = 1..MaxK in front of each face centre of a cube, along the inward normal
AimedCalls(c) ==
    {Call(c, VAdd(FaceCenter(c, f), VScale(FaceNormals[f], R(k))),
          VScale(FaceNormals[f], R(-1))) : f \in 1..6, k \in 1..MaxK}

\* rays to the edges, the corners and the inside of the front face of TenthsCube, and
\* rays that meet an edge of UnitCube where it is not at a double
EdgeCalls ==
    {Call(TenthsCube, Vec(0, 0, 0), <<RQ(dx, 10), RQ(dy, 10), RQ(-27, 10)>>) :
        dx \in {-2, 1, 3, 4}, dy \in {-1, 2, 5}}
    \cup {Call(UnitCube, Vec(0, 0, 1), <<RQ(dx, 28), RQ(3, 14), RQ(-9, 14)>>) :
            dx \in {3, 4, 5}}

\* the calls of Cube.intersect
CubeCalls ==
    {Call(FrontCube, o, d) : o \in OriginInputs, d \in DirInputs}
        \cup UNION {AimedCalls(c) : c \in CubeInputs}
        \cup EdgeCalls

\* the planes Plane.intersect is called on: three faces of a cube, and two oblique
\* planes whose normals are not unit vectors
PlaneInputs ==
    {FrontCube.planes[3], FrontCube.planes[4], FrontCube.planes[5],
     Plane(Vec(0, 0, -2), Vec(1, 0, 1), Green),
     Plane(Vec(1, 1, -1), <<RQ(1, 2), R(-2), R(0)>>, Green)}

Pixels == {<<yy, xx>> : yy \in 0..(image_height - 1), xx \in 0..(image_width - 1)}

-----------------------------------------------------------------------------
(* render *)

ambient_light == RQ(1, 10)

\* np.zeros((image_height, image_width, 3))
Zeros(h, w) == [p \in {<<yy, xx>> : yy \in 0..(h - 1), xx \in 0..(w - 1)} |-> Vec(0, 0, 0)]

\* the body of `for obj in scene` with `dist <= min_dist`
SceneStepLast(acc, k, hit) ==
    IF ~IsNone(hit.dist) /\ RLeq(hit.dist, acc.min_dist)
    THEN [min_dist |-> hit.dist, closest_obj |-> k, hit_normal |-> hit.normal,
          hit_count |-> acc.hit_count + 1]
    ELSE acc

\* the body of `for obj in scene` with `hit_normal = normal` moved out of the `if`
SceneStepStale(acc, k, hit) ==
    IF ~IsNone(hit.dist) /\ RLess(hit.dist, acc.min_dist)
    THEN [min_dist |-> hit.dist, closest_obj |-> k, hit_normal |-> hit.normal,
          hit_count |-> acc.hit_count + 1]
    ELSE [acc EXCEPT !.hit_normal = hit.normal]

\* the body of `for obj in scene`: acc is (min_dist, closest_obj, hit_normal, hit_count)
SceneStep(acc, k, hit) ==
    IF ~IsNone(hit.dist) /\ RLess(hit.dist, acc.min_dist)
    THEN [min_dist |-> hit.dist, closest_obj |-> k, hit_normal |-> hit.normal,
          hit_count |-> acc.hit_count + 1]
    ELSE acc

\* image[x, y] = c, where that is inside the image
WritePixelSwapped(img, yy, xx, c) ==
    IF <<xx, yy>> \in DOMAIN img THEN [img EXCEPT ![<<xx, yy>>] = c] ELSE img

\* image[y, x] = c
WritePixel(img, yy, xx, c) == [img EXCEPT ![<<yy, xx>>] = c]

\* scene_light.position had light_dir been the position array itself
\* (light_dir = scene_light.position; light_dir -= point; light_dir /= norm)
LightPositionInPlace(point, light) ==
    VDiv(VSub(light.position, point), Norm(VSub(light.position, point)))

\* scene_light.position after compute_lighting: light_dir = position - point is a new
\* array, and it is that array `light_dir /= norm` divides in place
LightPositionAfter(point, light) == light.position

\* camera_position after a pixel: origin is camera_position itself, and
\* hit_point = origin + min_dist * direction is a new array
CameraAfter(orig, dist, dir) == orig

RenderInit ==
    /\ scene \in SceneInputs
    /\ scene_light \in LightInputs
    /\ camera_position \in CameraInputs
    /\ image_width \in 1..MaxWidth
    /\ image_height \in 1..MaxHeight
    /\ fov = 90
    /\ image = <<>>
    /\ y = 0 /\ x = 0
    /\ origin = NoneVec /\ direction = NoneVec
    /\ closest_obj = 0
    /\ min_dist = Inf
    /\ hit_normal = NoneVec
    /\ obj = 0
    /\ hit_count = 0
    /\ light_intensity = None
    /\ entry = [scene |-> scene, scene_light |-> scene_light,
                camera_position |-> camera_position]
    /\ pc = "enter"

\* lines 69-71: the image is allocated; the loops start at (0, 0)
Enter ==
    /\ pc = "enter"
    /\ image' = Zeros(image_height, image_width)
    /\ hit_count' = 0
    /\ y' = 0 /\ x' = 0
    /\ pc' = "ray"
    /\ UNCHANGED <<scene, scene_light, camera_position, image_width, image_height, fov,
                   origin, direction, closest_obj, min_dist, hit_normal, obj,
                   light_intensity, entry>>

\* lines 74-76: the pixel's ray; closest_obj and min_dist are reset, hit_normal is not
CastRay ==
    /\ pc = "ray"
    /\ \E r \in {RayFromCamera(camera_position, x, y, image_width, image_height, fov)} :
           /\ origin' = r.origin
           /\ direction' = r.direction
    /\ closest_obj' = 0
    /\ min_dist' = Inf
    /\ obj' = 1
    /\ pc' = "scan"
    /\ UNCHANGED <<scene, scene_light, camera_position, image_width, image_height, fov,
                   image, y, x, hit_normal, hit_count, light_intensity, entry>>

\* lines 77-83: one iteration of `for obj in scene`
ScanObject ==
    /\ pc = "scan"
    /\ obj <= Len(scene)
    /\ \E acc \in {SceneStep([min_dist |-> min_dist, closest_obj |-> closest_obj,
                              hit_normal |-> hit_normal, hit_count |-> hit_count],
                             obj, CubeIntersect(scene[obj], origin, direction))} :
           /\ min_dist' = acc.min_dist
           /\ closest_obj' = acc.closest_obj
           /\ hit_normal' = acc.hit_normal
           /\ hit_count' = acc.hit_count
    /\ obj' = obj + 1
    /\ UNCHANGED <<scene, scene_light, camera_position, image_width, image_height, fov,
                   image, y, x, origin, direction, light_intensity, entry, pc>>

\* the loop headers of lines 72-73: the next pixel in row-major order, or the return
Advance ==
    /\ IF x + 1 < image_width THEN x' = x + 1 /\ y' = y
                              ELSE x' = 0 /\ y' = y + 1
    /\ pc' = IF y' < image_height THEN "ray" ELSE "done"

\* lines 84-88: the pixel has a nearest hit and is shaded
ShadePixel ==
    /\ pc = "scan"
    /\ obj > Len(scene)
    /\ closest_obj # 0
    /\ \E hit_point \in {VAdd(origin, VScale(direction, min_dist))} :
       \E li \in {RAdd(ComputeLighting(hit_point, hit_normal, scene_light), ambient_light)} :
       \E color \in {VScale(scene[closest_obj].color, li)} :
           /\ light_intensity' = li
           /\ image' = WritePixel(image, y, x, [c \in 1..3 |-> Clip01(color[c])])
           /\ scene_light' = [scene_light EXCEPT !.position = LightPositionAfter(hit_point, scene_light)]
           /\ camera_position' = CameraAfter(origin, min_dist, direction)
    /\ Advance
    /\ UNCHANGED <<scene, image_width, image_height, fov, origin, direction,
                   closest_obj, min_dist, hit_normal, obj, hit_count, entry>>

\* line 84, closest_obj is None: the pixel is left as it is
SkipPixel ==
    /\ pc = "scan"
    /\ obj > Len(scene)
    /\ closest_obj = 0
    /\ Advance
    /\ UNCHANGED <<scene, scene_light, camera_position, image_width, image_height, fov,
                   image, origin, direction, closest_obj, min_dist, hit_normal, obj,
                   hit_count, light_intensity, entry>>

\* no call has returned yet
Pending == [t |-> None, normal |-> NoneVec, p |-> NoneVec, dist |-> None, returned |-> FALSE]

CallIdle ==
    /\ fn = "none" /\ plane = Plane(NoneVec, NoneVec, NoneVec)
    /\ cube = Cube(Vec(0, 0, 0), R(0), NoneVec)
    /\ ray_origin = NoneVec /\ ray_direction = NoneVec
    /\ ret = Pending

Init == RenderInit /\ CallIdle

Next ==
    \/ Enter /\ UNCHANGED callVars
    \/ CastRay /\ UNCHANGED callVars
    \/ ScanObject /\ UNCHANGED callVars
    \/ ShadePixel /\ UNCHANGED callVars
    \/ SkipPixel /\ UNCHANGED callVars

Spec == Init /\ [][Next]_vars

-----------------------------------------------------------------------------
(* One call of Plane.intersect or of Cube.intersect, on inputs of its own *)

RenderIdle ==
    /\ scene = <<>>
    /\ scene_light = Light(Vec(0, 0, 0), R(0))
    /\ camera_position = Vec(0, 0, 0)
    /\ image_width = 0 /\ image_height = 0 /\ fov = 90
    /\ image = <<>>
    /\ y = 0 /\ x = 0
    /\ origin = NoneVec /\ direction = NoneVec
    /\ closest_obj = 0
    /\ min_dist = Inf
    /\ hit_normal = NoneVec
    /\ obj = 0
    /\ hit_count = 0
    /\ light_intensity = None
    /\ entry = [scene |-> scene, scene_light |-> scene_light,
                camera_position |-> camera_position]
    /\ pc = "idle"


CallInit ==
    /\ \/ /\ fn = "Plane.intersect"
          /\ plane \in PlaneInputs
          /\ cube = Cube(Vec(0, 0, 0), R(0), NoneVec)
          /\ ray_origin \in OriginInputs
          /\ ray_direction \in DirInputs
       \/ /\ fn = "Cube.intersect"
          /\ plane = Plane(NoneVec, NoneVec, NoneVec)
          /\ \E c \in CubeCalls :
                /\ cube = c.cube
                /\ ray_origin = c.ray_origin
                /\ ray_direction = c.ray_direction
    /\ ret = Pending

\* plane.intersect(ray_origin, ray_direction) returns
CallPlaneIntersect ==
    /\ fn = "Plane.intersect"
    /\ ~ret.returned
    /\ \E h \in {PlaneIntersect(plane, ray_origin, ray_direction)} :
           ret' = [t |-> h.t, normal |-> h.normal, p |-> h.p, dist |-> None,
                   returned |-> TRUE]
    /\ UNCHANGED <<fn, plane, cube, ray_origin, ray_direction>>

\* cube.intersect(ray_origin, ray_direction) returns
CallCubeIntersect ==
    /\ fn = "Cube.intersect"
    /\ ~ret.returned
    /\ \E h \in {CubeIntersect(cube, ray_origin, ray_direction)} :
           ret' = [t |-> None, normal |-> h.normal, p |-> NoneVec, dist |-> h.dist,
                   returned |-> TRUE]
    /\ UNCHANGED <<fn, plane, cube, ray_origin, ray_direction>>

IntersectInit == RenderIdle /\ CallInit

IntersectNext ==
    \/ CallPlaneIntersect /\ UNCHANGED renderVars
    \/ CallCubeIntersect /\ UNCHANGED renderVars

SpecIntersect == IntersectInit /\ [][IntersectNext]_vars
-----------------------------------------------------------------------------
-----------------------------------------------------------------------------
(* Properties of Plane.intersect and Cube.intersect (under SpecIntersect) *)

PlaneReturned == fn = "Plane.intersect" /\ ret.returned

CubeReturned == fn = "Cube.intersect" /\ ret.returned

\* the two dot products Plane.intersect divides
PlaneDenom == Dot(ray_direction, plane.normal)

PlaneNumer == Dot(VSub(plane.point, ray_origin), plane.normal)

\* C1: Plane.intersect returns no hit exactly when |dot(ray_direction, normal)| < 1e-6
\* or t = dot(point - ray_origin, normal) / dot(ray_direction, normal) is negative;
\* otherwise it returns that t (t >= 0), the plane's own normal, and
\* hit_point = ray_origin + t * ray_direction.
PlaneIntersectContract ==
    PlaneReturned =>
        \A denom \in {PlaneDenom} : \A t \in {RDiv(PlaneNumer, denom)} :
            IF RLess(RAbs(denom), Eps) \/ RLess(t, R(0))
            THEN IsNone(ret.t) /\ ret.normal = NoneVec /\ ret.p = NoneVec
            ELSE /\ ret.t = t
                 /\ RLeq(R(0), ret.t)
                 /\ ret.normal = plane.normal
                 /\ ret.p = VAdd(ray_origin, VScale(ray_direction, t))

\* a hit at t > 0 through a denominator that is exactly at the 1e-6 threshold
PlaneThresholdHit ==
    /\ PlaneReturned
    /\ REq(RAbs(PlaneDenom), Eps)
    /\ IsNum(ret.t) /\ RLess(R(0), ret.t)

\* the six plane hits of the cube call, and the faces whose hit passes the bound test
FaceHits == [f \in 1..6 |-> PlaneIntersect(cube.planes[f], ray_origin, ray_direction)]

Accepted(H) == {f \in 1..6 : ~IsNone(H[f].t) /\ FaceBound(cube, H[f].normal, H[f].p)}

\* C2: Cube.intersect returns the minimum distance over the face-plane hits that
\* pass the face-bound test, with the normal of the first face (in plane order)
\* attaining it, and no distance exactly when no face passes the test.
CubeIntersectNearestFace ==
    CubeReturned =>
        \A H \in {FaceHits} : \A A \in {Accepted(H)} :
            IF A = {} THEN IsNone(ret.dist)
            ELSE \E f \in A :
                    /\ \A g \in A : RLeq(H[f].t, H[g].t)
                    /\ \A g \in A : g < f => RLess(H[f].t, H[g].t)
                    /\ ret.dist = H[f].t
                    /\ ret.normal = cube.planes[f].normal

\* two faces pass the test at the same, minimal distance (the ray meets an edge)
CubeEdgeTie ==
    /\ CubeReturned
    /\ \E H \in {FaceHits} : \E A \in {Accepted(H)} : \E f, g \in A :
          /\ f < g
          /\ REq(H[f].t, H[g].t)
          /\ REq(H[f].t, ret.dist)


\* the distance from the ray origin to the plane of face f, along the face normal
DistToFace(f) == Dot(VSub(ray_origin, FaceCenter(cube, f)), FaceNormals[f])

\* the ray starts outside the cube in front of the centre of face f and runs along
\* the face's inward normal
AimedAt(f) ==
    /\ VEq(ray_direction, VScale(FaceNormals[f], R(-1)))
    /\ \A i \in 1..3 : IsZero(FaceNormals[f][i]) => REq(ray_origin[i], cube.center[i])
    /\ RLess(R(0), DistToFace(f))

\* C8: for a ray from outside the cube along a face's inward normal through the
\* face centre, Cube.intersect returns the face's outward normal and the distance
\* from the ray origin to the face's plane.
CubeFaceCenterHit ==
    CubeReturned =>
        \A f \in 1..6 :
            AimedAt(f) => ret.normal = FaceNormals[f] /\ REq(ret.dist, DistToFace(f))

\* a call aimed at the centre of face f has returned a hit
CubeAimedAtFace(f) == CubeReturned /\ AimedAt(f) /\ IsNum(ret.dist)

\* such a call on the cube whose face planes are not at exact doubles, from farther
\* than 1 away
CubeAimedWitness == CubeAimedAtFace(2) /\ cube = TenthsCube /\ RLess(R(1), ret.dist)

\* the exact test: on the two axes orthogonal to the normal of face f, the point is
\* within the cube's extents [center - side/2, center + side/2]
ExactFace(c, f, p) ==
    \A i \in 1..3 :
        IsZero(FaceNormals[f][i]) =>
            /\ RLeq(RSub(c.center[i], RDiv(c.side, R(2))), p[i])
            /\ RLeq(p[i], RAdd(c.center[i], RDiv(c.side, R(2))))

\* the face-bound test and the exact test disagree on the plane hit h of face f
TestsDiffer(c, f, h) ==
    ~IsNone(h.t) /\ (FaceBound(c, h.normal, h.p) # ExactFace(c, f, h.p))

\* 2^-50: four units in the last place of a double in [1, 2)
FewUlps == Round(0, <<1>>, -50)

\* the point p of the plane of face f lies on the boundary of the face, to within
\* the rounding of doubles of the size of the cube's coordinates
OnFaceEdge(c, f, p) ==
    \E i \in 1..3 :
        /\ IsZero(FaceNormals[f][i])
        /\ RLeq(RAbs(RSub(RAbs(RSub(p[i], c.center[i])), RDiv(c.side, R(2)))),
                RMul(FewUlps, RAdd(RAbs(c.center[i]), c.side)))

\* the two tests disagree on the plane hit of face f, away from the face's boundary
DifferInside(c, f, o, d) ==
    \E h \in {PlaneIntersect(c.planes[f], o, d)} :
        TestsDiffer(c, f, h) /\ ~OnFaceEdge(c, f, h.p)

-----------------------------------------------------------------------------
(* Properties of render (under Spec) *)

\* the scene loop of the current pixel has run over every object
ScanDone == pc = "scan" /\ obj > Len(scene)

\* what each object of the scene reports for the current pixel's ray
SceneHits == [k \in 1..Len(scene) |-> CubeIntersect(scene[k], origin, direction)]

\* the objects that report a hit
Hitting(H) == {k \in DOMAIN H : ~IsNone(H[k].dist)}

\* C3: when the scene loop of a pixel ends, closest_obj is the object with the
\* smallest reported hit distance, the first in scene order among several with that
\* distance, and None (0) when no object reports a hit; min_dist is that distance.
RenderSelectsNearest ==
    ScanDone =>
        \A H \in {SceneHits} :
            IF Hitting(H) = {} THEN closest_obj = 0
            ELSE /\ closest_obj \in Hitting(H)
                 /\ \A j \in Hitting(H) : RLeq(H[closest_obj].dist, H[j].dist)
                 /\ \A j \in Hitting(H) :
                        j < closest_obj => RLess(H[closest_obj].dist, H[j].dist)
                 /\ min_dist = H[closest_obj].dist

\* two different objects report the same minimal distance and the first is selected
RenderTieFirstWins ==
    /\ ScanDone
    /\ closest_obj = 1
    /\ \E H \in {SceneHits} :
          /\ 2 \in Hitting(H)
          /\ scene[2] # scene[1]
          /\ REq(H[2].dist, H[1].dist)

\* the ray render casts through pixel <<yy, xx>>
PixelRay(p) == RayFromCamera(camera_position, p[2], p[1], image_width, image_height, fov)

\* no object of the scene reports a hit for the ray
NoObjectHit(r) ==
    \A k \in 1..Len(scene) : IsNone(CubeIntersect(scene[k], r.origin, r.direction).dist)

\* the pixels the loops have not reached yet (the current one included, while it is
\* being worked on)
NotYetWritten(p) == p[1] > y \/ (p[1] = y /\ p[2] >= x)

\* C4: in the returned image every pixel whose ray hits no object is (0,0,0), and
\* at any time during render so is every pixel the loops have not reached.
RenderBackgroundBlack ==
    /\ pc # "enter" => \A p \in Pixels : NotYetWritten(p) => image[p] = Vec(0, 0, 0)
    /\ pc = "done" => \A p \in Pixels : NoObjectHit(PixelRay(p)) => image[p] = Vec(0, 0, 0)

\* the returned image has a black background pixel next to a shaded one
RenderMixedImage ==
    /\ pc = "done"
    /\ \E p \in Pixels : NoObjectHit(PixelRay(p)) /\ image[p] = Vec(0, 0, 0)
    /\ \E p \in Pixels : image[p] # Vec(0, 0, 0)

\* C5: once allocated, the image has shape height x width x 3 and every channel of
\* every pixel lies in [0,1].
RenderImageInRange ==
    pc # "enter" =>
        /\ DOMAIN image = Pixels
        /\ \A p \in Pixels :
              /\ DOMAIN image[p] = 1..3
              /\ \A c \in 1..3 : RLeq(R(0), image[p][c]) /\ RLeq(image[p][c], R(1))

\* C6: the shading intensity render uses, compute_lighting(...) + 0.1, lies in
\* [0, light.intensity + 0.1].
RenderIntensityInRange ==
    ~IsNone(light_intensity) =>
        /\ RLeq(R(0), light_intensity)
        /\ RLeq(light_intensity, RAdd(scene_light.intensity, ambient_light))

\* C7: the scene, the light and the camera position are what they were at render
\* entry, whatever has been rendered so far.
RenderInputsUnchanged ==
    /\ scene = entry.scene
    /\ scene_light = entry.scene_light
    /\ camera_position = entry.camera_position

\* render has returned after shading pixels of a scene of two cubes
RenderShadedAndDone ==
    /\ pc = "done"
    /\ Len(scene) = 2
    /\ hit_count > 1
    /\ \E p \in Pixels : image[p] # Vec(0, 0, 0)

\* C10: whenever the scene loop holds a closest object, hit_normal and min_dist are
\* the normal and the distance that object's intersect returns for the current
\* pixel's ray, so the normal ShadePixel reads is never a leftover.
RenderNormalIsCurrent ==
    (pc = "scan" /\ closest_obj # 0) =>
        \A h \in {CubeIntersect(scene[closest_obj], origin, direction)} :
            hit_normal = h.normal /\ min_dist = h.dist

\* a pixel after the first is about to be shaded with the first object's normal
\* although the second, farther or equally far, object reports another normal
RenderOtherNormalIgnored ==
    /\ ScanDone
    /\ closest_obj = 1
    /\ <<y, x>> # <<0, 0>>
    /\ \E H \in {SceneHits} : 2 \in Hitting(H) /\ H[2].normal # hit_normal
====
